---- MODULE Spec2Model ----
(***************************************************************************)
(* LinkDetect (src/app.py): the lexical feature extractor                  *)
(* extract_features_from_url and the Flask handler predict, which scales,  *)
(* classifies, decodes, applies the override rule and appends dangerous    *)
(* detections to classified_history.csv.                                   *)
(*                                                                         *)
(* Python strings are modelled as sequences of one-character strings, so   *)
(* that len, count, split, lower, "in" and the two regular expressions are *)
(* computed character by character as the interpreter computes them.       *)
(***************************************************************************)
EXTENDS Integers, Sequences, FiniteSets, TLC

VARIABLES
    xurl,               \* extractor harness: the argument of extract_features_from_url
    xres,               \* extractor harness: what the call produced
    xpc,                \* extractor harness: "ready" before the call, "done" after
    pc,                 \* per request: position of its thread inside predict()
    request,            \* per request: the JSON body's url ([present, url])
    features,           \* per request: local `features`
    scaled,             \* per request: local `scaled`
    prediction_encoded, \* per request: local `prediction_encoded`
    prediction_label,   \* per request: local `prediction_label`
    calls,              \* per request: how often each collaborator was invoked
    file,               \* per request: the file object of the with-block
    response,           \* per request: the (payload, status) returned
    sink                \* classified_history.csv: its content, unit by unit

vars == <<xurl, xres, xpc, pc, request, features, scaled, prediction_encoded,
          prediction_label, calls, file, response, sink>>

xvars == <<xurl, xres, xpc>>
pvars == <<pc, request, features, scaled, prediction_encoded,
           prediction_label, calls, file, response, sink>>

-----------------------------------------------------------------------------
(* Bounds of the model.                                                    *)

MaxLen == 3        \* longest enumerated extractor input
MaxReqs == 2       \* requests received in one run, each on its own thread
MaxParts == 2      \* units of a record, hence raw writes it may be flushed in

-----------------------------------------------------------------------------
(* Python str primitives.                                                  *)

ascii_lowercase == <<"a", "b", "c", "d", "e", "f", "g", "h", "i", "j", "k", "l", "m",
                     "n", "o", "p", "q", "r", "s", "t", "u", "v", "w", "x", "y", "z">>
ascii_uppercase == <<"A", "B", "C", "D", "E", "F", "G", "H", "I", "J", "K", "L", "M",
                     "N", "O", "P", "Q", "R", "S", "T", "U", "V", "W", "X", "Y", "Z">>
digits == {"0", "1", "2", "3", "4", "5", "6", "7", "8", "9"}

isdigit(c) == c \in digits

uppercase == {ascii_uppercase[i] : i \in 1..Len(ascii_uppercase)}

\* the lower-case letter of each upper-case letter
lowercase_of ==
    [c \in uppercase |->
        ascii_lowercase[CHOOSE i \in 1..Len(ascii_uppercase) : ascii_uppercase[i] = c]]

isupper(c) == c \in uppercase

lower_char(c) == IF isupper(c) THEN lowercase_of[c] ELSE c

\* str.lower()
lower(s) == [i \in 1..Len(s) |-> lower_char(s[i])]

\* str.count(c) for a one-character c
count(s, c) == Cardinality({i \in 1..Len(s) : s[i] = c})

\* sub in s
contains(s, sub) ==
    \E i \in 0..(Len(s) - Len(sub)) : \A j \in 1..Len(sub) : s[i + j] = sub[j]

RECURSIVE split_from(_, _, _, _)
split_from(s, sep, i, cur) ==
    IF i > Len(s) THEN <<cur>>
    ELSE IF s[i] = sep THEN <<cur>> \o split_from(s, sep, i + 1, <<>>)
    ELSE split_from(s, sep, i + 1, Append(cur, s[i]))

\* str.split(sep) for a one-character sep: count(sep) + 1 pieces
split(s, sep) == split_from(s, sep, 1, <<>>)

\* list[i] with Python's 0-based index: <<item>>, or <<>> when it raises IndexError
getitem(list, i) == IF i + 1 \in 1..Len(list) THEN <<list[i + 1]>> ELSE <<>>

\* number of consecutive decimal digits of s starting at position i (1-based)
RECURSIVE digit_run(_, _)
digit_run(s, i) ==
    IF i <= Len(s) /\ isdigit(s[i]) THEN 1 + digit_run(s, i + 1) ELSE 0

char_is(s, i, c) == i <= Len(s) /\ s[i] = c

\* the pattern \d+\.\d+\.\d+\.\d+ matched with its first character at position i
ip_pattern_at(s, i) ==
    LET n1 == digit_run(s, i)
        p2 == i + n1 + 1
        n2 == digit_run(s, p2)
        p3 == p2 + n2 + 1
        n3 == digit_run(s, p3)
        p4 == p3 + n3 + 1
        n4 == digit_run(s, p4)
    IN  /\ n1 > 0 /\ char_is(s, i + n1, ".")
        /\ n2 > 0 /\ char_is(s, p2 + n2, ".")
        /\ n3 > 0 /\ char_is(s, p3 + n3, ".")
        /\ n4 > 0

\* re.match(r'\d+\.\d+\.\d+\.\d+', url): anchored at the start of the string
re_match_ip(url) == ip_pattern_at(url, 1)

\* re.search(r":\d+", url): anywhere in the string
re_search_port(url) ==
    \E i \in 1..Len(url) : url[i] = ":" /\ digit_run(url, i + 1) > 0

-----------------------------------------------------------------------------
(* extract_features_from_url, one definition per appended feature.  The    *)
(* two features that subscript a list yield <<value>>, or <<>> when the     *)
(* subscript raises IndexError.                                            *)

special_chars == <<"@", "?", "=", "&", "-", "_">>

RECURSIVE sum_counts(_, _, _)
sum_counts(url, chars, i) ==
    IF i > Len(chars) THEN 0 ELSE count(url, chars[i]) + sum_counts(url, chars, i + 1)

encoding_tags == { <<"b", "a", "s", "e", "6", "4">>,
                   <<"j", "a", "v", "a", "s", "c", "r", "i", "p", "t", ":">>,
                   <<"d", "a", "t", "a", ":">> }

suspicious_words == {
    <<"l", "o", "g", "i", "n">>, <<"v", "e", "r", "i", "f", "y">>,
    <<"s", "e", "c", "u", "r", "e">>, <<"a", "c", "c", "o", "u", "n", "t">>,
    <<"u", "p", "d", "a", "t", "e">>, <<"c", "o", "n", "f", "i", "r", "m">>,
    <<"b", "a", "n", "k">>, <<"r", "e", "s", "e", "t">>, <<"f", "r", "e", "e">>,
    <<"c", "l", "i", "c", "k">>, <<"o", "f", "f", "e", "r">>, <<"w", "i", "n">>,
    <<"p", "a", "y", "p", "a", "l">>, <<"e", "b", "a", "y">> }

url_length(url) == Len(url)

dot_count(url) == count(url, ".")

special_count(url) == sum_counts(url, special_chars, 1)

has_ip(url) == IF re_match_ip(url) THEN 1 ELSE 0

has_https(url) == IF contains(lower(url), <<"h", "t", "t", "p", "s">>) THEN 1 ELSE 0

segment_count(url) == Len(split(url, "/"))

has_encoding(url) ==
    IF \E tag \in encoding_tags : contains(lower(url), tag) THEN 1 ELSE 0

digit_count(url) == Cardinality({i \in 1..Len(url) : isdigit(url[i])})

upper_count(url) == Cardinality({i \in 1..Len(url) : isupper(url[i])})

\* variant: the guard compares with 1, so a two-segment split is subscripted at 2
domain_length_guard_one(url) ==
    IF Len(split(url, "/")) > 1
    THEN LET item == getitem(split(url, "/"), 2)
         IN  IF item = <<>> THEN <<>> ELSE <<Len(item[1])>>
    ELSE <<0>>

domain_length(url) ==
    IF Len(split(url, "/")) > 2
    THEN LET item == getitem(split(url, "/"), 2)
         IN  IF item = <<>> THEN <<>> ELSE <<Len(item[1])>>
    ELSE <<0>>

subdomain_count(url) ==
    IF Len(split(url, ".")) > 2 THEN Len(split(url, ".")) - 2 ELSE 0

has_port(url) == IF re_search_port(url) THEN 1 ELSE 0

query_length(url) ==
    IF contains(url, <<"?">>)
    THEN LET item == getitem(split(url, "?"), 1)
         IN  IF item = <<>> THEN <<>> ELSE <<Len(item[1])>>
    ELSE <<0>>

has_suspicious_word(url) ==
    IF \E word \in suspicious_words : contains(lower(url), word) THEN 1 ELSE 0

\* The call's outcome: the 14-element array, or an exception out of the body.
extract_features_from_url(url) ==
    IF domain_length(url) = <<>> \/ query_length(url) = <<>>
    THEN [raised |-> TRUE, array |-> <<>>]
    ELSE [raised |-> FALSE,
          array |-> << url_length(url), dot_count(url), special_count(url),
                       has_ip(url), has_https(url), segment_count(url),
                       has_encoding(url), digit_count(url), upper_count(url),
                       domain_length(url)[1], subdomain_count(url), has_port(url),
                       query_length(url)[1], has_suspicious_word(url) >>]

-----------------------------------------------------------------------------
(* Extractor harness: one call of extract_features_from_url on each input. *)

Alphabet == {"?", "/", ".", ":", "1", "a", "A"}

Examples == {
    <<"h", "t", "t", "p", ":", "/", "/", "1", "9", "2", ".", "1", "6", "8", ".", "1",
      ".", "1", "/", "l", "o", "g", "i", "n">>,
    <<"h", "t", "t", "p", "s", ":", "/", "/", "e", "x", "a", "m", "p", "l", "e", ".",
      "c", "o", "m", "/", "a", "/", "b", "?", "x", "=", "1">>,
    <<"n", "o", "s", "l", "a", "s", "h", "e", "s", "n", "o", "q", "u", "e", "r", "y">>,
    <<"1", "9", "2", ".", "1", "6", "8", ".", "1", ".", "1", "/", "l", "o", "g", "i", "n">>,
    <<"a", "?", "x", "=", "1", "?", "y">> }

ExtractInputs == Examples \cup UNION {[1..n -> Alphabet] : n \in 0..MaxLen}

NotCalled == [raised |-> FALSE, array |-> <<>>]

XInit ==
    /\ xurl \in ExtractInputs
    /\ xres = NotCalled
    /\ xpc = "ready"

XCall ==
    /\ xpc = "ready"
    /\ xres' = extract_features_from_url(xurl)
    /\ xpc' = "done"
    /\ UNCHANGED <<xurl, pvars>>

-----------------------------------------------------------------------------
(* predict(): the request handler.  The development server runs every      *)
(* request on a thread of its own, so requests overlap freely.             *)

Requests == 1..MaxReqs

\* The handler's strings are held by name; chars gives the characters of each,
\* on which lower() and `in` work.
chars(s) ==
    CASE s = "" -> <<>>
      [] s = "http://VulnWeb.com/TestPHP/x" ->
            <<"h", "t", "t", "p", ":", "/", "/", "V", "u", "l", "n", "W", "e", "b", ".",
              "c", "o", "m", "/", "T", "e", "s", "t", "P", "H", "P", "/", "x">>
      [] s = "http://ok.org/a" ->
            <<"h", "t", "t", "p", ":", "/", "/", "o", "k", ".", "o", "r", "g", "/", "a">>
      [] s = "benign" -> <<"b", "e", "n", "i", "g", "n">>
      [] s = "Phishing" -> <<"P", "h", "i", "s", "h", "i", "n", "g">>
      [] s = "phishing" -> <<"p", "h", "i", "s", "h", "i", "n", "g">>

override_tags == { <<"v", "u", "l", "n", "w", "e", "b">>,
                   <<"a", "c", "u", "n", "e", "t", "i", "x">>,
                   <<"t", "e", "s", "t", "p", "h", "p">>,
                   <<"d", "e", "m", "o">> }

dangerous_labels == { <<"p", "h", "i", "s", "h", "i", "n", "g">>,
                      <<"m", "a", "l", "i", "c", "i", "o", "u", "s">>,
                      <<"u", "n", "s", "a", "f", "e">> }

\* label_encoder.classes_: the labels the pickled encoder decodes to
classes == <<"benign", "Phishing">>

\* request bodies: data.get('url') is None, "" or a non-empty string
RequestUrls == {"", "http://VulnWeb.com/TestPHP/x", "http://ok.org/a"}

NoUrl == [present |-> FALSE, url |-> ""]

RequestBodies == {NoUrl} \cup {[present |-> TRUE, url |-> u] : u \in RequestUrls}

\* variant: `url is None`, which lets the empty string through
falsy_none_only(body) == ~body.present

\* `not url`: None and the empty string are falsy
falsy(body) == ~body.present \/ chars(body.url) = <<>>

\* line 52: any(tag in url.lower() for tag in [...])
override_applies(url) == \E tag \in override_tags : contains(lower(chars(url)), tag)

\* variant: the override rule leaves the decoded label in place
overridden_never(url, label) == label

\* lines 52-53: the label after the override rule
overridden(url, label) == IF override_applies(url) THEN "phishing" ELSE label

\* variant: every label counts as dangerous
is_dangerous_always(label) == TRUE

\* line 57: prediction_label.lower() in ["phishing", "malicious", "unsafe"]
is_dangerous(label) == lower(chars(label)) \in dangerous_labels

NoCalls == [extract |-> 0, scaler |-> 0, model |-> 0, decoder |-> 0]
NoResponse == [status |-> 0, key |-> "none", value |-> ""]
ClosedFile == [open |-> FALSE, buffer |-> <<>>, written |-> 0]

\* line 60: [datetime.now().isoformat(), url, prediction_label]; the time of day
\* is left symbolic
row(r) == [timestamp |-> "datetime.now().isoformat()", url |-> request[r].url,
           label |-> prediction_label[r]]

\* jsonify({'error': str(e)}), 500
error_response(message) == [status |-> 500, key |-> "error", value |-> message]

PInit ==
    /\ pc = [r \in Requests |-> "waiting"]
    /\ request = [r \in Requests |-> NoUrl]
    /\ features = [r \in Requests |-> <<>>]
    /\ scaled = [r \in Requests |-> <<>>]
    /\ prediction_encoded = [r \in Requests |-> 0]
    /\ prediction_label = [r \in Requests |-> ""]
    /\ calls = [r \in Requests |-> NoCalls]
    /\ file = [r \in Requests |-> ClosedFile]
    /\ response = [r \in Requests |-> NoResponse]
    /\ sink = <<>>

Init ==
    /\ PInit
    /\ xurl = <<>>
    /\ xres = NotCalled
    /\ xpc = "ready"

\* predict() returns `resp`: the thread ends and its locals are gone
Answer(r, resp) ==
    /\ response' = [response EXCEPT ![r] = resp]
    /\ pc' = [pc EXCEPT ![r] = "done"]
    /\ features' = [features EXCEPT ![r] = <<>>]
    /\ scaled' = [scaled EXCEPT ![r] = <<>>]
    /\ prediction_encoded' = [prediction_encoded EXCEPT ![r] = 0]
    /\ prediction_label' = [prediction_label EXCEPT ![r] = ""]

\* lines 37-42: the r-th request arrives, data.get('url') is read, and
\* `if not url` answers {'error': 'No URL provided'}, 400
Receive(r) ==
    /\ pc[r] = "waiting"
    /\ \A q \in Requests : q < r => pc[q] # "waiting"
    /\ \E body \in RequestBodies :
           /\ request' = [request EXCEPT ![r] = body]
           /\ IF falsy(body)
              THEN Answer(r, [status |-> 400, key |-> "error",
                              value |-> "No URL provided"])
              ELSE /\ pc' = [pc EXCEPT ![r] = "extract"]
                   /\ UNCHANGED <<response, features, scaled, prediction_encoded,
                                  prediction_label>>
    /\ UNCHANGED <<calls, file, sink, xvars>>

\* line 46, and lines 64-65 when the call raises
Extract(r) ==
    /\ pc[r] = "extract"
    /\ calls' = [calls EXCEPT ![r].extract = @ + 1]
    /\ LET res == extract_features_from_url(chars(request[r].url))
       IN  IF res.raised
           THEN Answer(r, error_response("IndexError"))
           ELSE /\ features' = [features EXCEPT ![r] = res.array]
                /\ pc' = [pc EXCEPT ![r] = "scale"]
                /\ UNCHANGED <<response, scaled, prediction_encoded, prediction_label>>
    /\ UNCHANGED <<request, file, sink, xvars>>

\* line 47: scaled = scaler.transform([features])
Scale(r) ==
    /\ pc[r] = "scale"
    /\ calls' = [calls EXCEPT ![r].scaler = @ + 1]
    /\ scaled' = [scaled EXCEPT ![r] = <<features[r]>>]
    /\ pc' = [pc EXCEPT ![r] = "predict"]
    /\ UNCHANGED <<request, features, prediction_encoded, prediction_label,
                   file, response, sink, xvars>>

\* variant: a failed scaler call is tried again
ScaleRaise_retry(r) ==
    /\ pc[r] = "scale"
    /\ calls' = [calls EXCEPT ![r].scaler = @ + 1]
    /\ UNCHANGED <<pc, request, features, scaled, prediction_encoded,
                   prediction_label, file, response, sink, xvars>>

\* line 47 raising (shape mismatch, unfitted scaler), caught at lines 64-65
ScaleRaise(r) ==
    /\ pc[r] = "scale"
    /\ calls' = [calls EXCEPT ![r].scaler = @ + 1]
    /\ Answer(r, error_response("scaler.transform raised"))
    /\ UNCHANGED <<request, file, sink, xvars>>

\* line 50: prediction_encoded = model.predict(scaled)[0]
Predict(r) ==
    /\ pc[r] = "predict"
    /\ calls' = [calls EXCEPT ![r].model = @ + 1]
    /\ \E k \in 0..(Len(classes) - 1) :
           prediction_encoded' = [prediction_encoded EXCEPT ![r] = k]
    /\ pc' = [pc EXCEPT ![r] = "decode"]
    /\ UNCHANGED <<request, features, scaled, prediction_label,
                   file, response, sink, xvars>>

\* line 50 raising, caught at lines 64-65
PredictRaise(r) ==
    /\ pc[r] = "predict"
    /\ calls' = [calls EXCEPT ![r].model = @ + 1]
    /\ Answer(r, error_response("model.predict raised"))
    /\ UNCHANGED <<request, file, sink, xvars>>

\* line 51: prediction_label = label_encoder.inverse_transform([prediction_encoded])[0]
Decode(r) ==
    /\ pc[r] = "decode"
    /\ calls' = [calls EXCEPT ![r].decoder = @ + 1]
    /\ prediction_label' =
           [prediction_label EXCEPT ![r] = classes[prediction_encoded[r] + 1]]
    /\ pc' = [pc EXCEPT ![r] = "override"]
    /\ UNCHANGED <<request, features, scaled, prediction_encoded,
                   file, response, sink, xvars>>

\* line 51 raising, caught at lines 64-65
DecodeRaise(r) ==
    /\ pc[r] = "decode"
    /\ calls' = [calls EXCEPT ![r].decoder = @ + 1]
    /\ Answer(r, error_response("label_encoder.inverse_transform raised"))
    /\ UNCHANGED <<request, file, sink, xvars>>

\* lines 52-57: the override rule overwrites the decoded label, and only a
\* dangerous final label enters the with-block
Override(r) ==
    /\ pc[r] = "override"
    /\ LET final == overridden(request[r].url, prediction_label[r])
       IN  /\ prediction_label' = [prediction_label EXCEPT ![r] = final]
           /\ pc' = [pc EXCEPT ![r] = IF is_dangerous(final) THEN "open" ELSE "return"]
    /\ UNCHANGED <<request, features, scaled, prediction_encoded,
                   calls, file, response, sink, xvars>>

\* variant: mode="w", which truncates the file on open
Open_truncating(r) ==
    /\ pc[r] = "open"
    /\ file' = [file EXCEPT ![r] = [open |-> TRUE, buffer |-> <<row(r)>>, written |-> 0]]
    /\ sink' = <<>>
    /\ pc' = [pc EXCEPT ![r] = "flush"]
    /\ UNCHANGED <<request, features, scaled, prediction_encoded,
                   prediction_label, calls, response, xvars>>

\* lines 58-60: open("classified_history.csv", mode="a", ...) keeps the file's
\* content, and writer.writerow puts the row into the file object's buffer
Open(r) ==
    /\ pc[r] = "open"
    /\ file' = [file EXCEPT ![r] = [open |-> TRUE, buffer |-> <<row(r)>>, written |-> 0]]
    /\ pc' = [pc EXCEPT ![r] = "flush"]
    /\ UNCHANGED <<request, features, scaled, prediction_encoded,
                   prediction_label, calls, response, sink, xvars>>

\* line 58 raising OSError (permissions, missing directory), caught at lines 64-65
OpenRaise(r) ==
    /\ pc[r] = "open"
    /\ Answer(r, error_response("OSError"))
    /\ UNCHANGED <<request, calls, file, sink, xvars>>

\* leaving the with-block (line 60) flushes the buffer and closes the file.
\* The handler takes no lock: the buffered record reaches the file in one or
\* more raw writes, each landing at the then-current end of the file
\* (mode "a"), and raw writes of other threads may land in between.  A record
\* is MaxParts units long; a raw write carries the next n units of it.
RawWrite(r) ==
    /\ pc[r] = "flush"
    /\ \E n \in 1..(MaxParts - file[r].written) :
           /\ sink' = sink \o [k \in 1..n |->
                         [req |-> r, row |-> file[r].buffer[1],
                          unit |-> file[r].written + k]]
           /\ IF file[r].written + n = MaxParts
              THEN /\ file' = [file EXCEPT ![r] = ClosedFile]
                   /\ pc' = [pc EXCEPT ![r] = "return"]
              ELSE /\ file' = [file EXCEPT ![r].written = @ + n]
                   /\ UNCHANGED pc
    /\ UNCHANGED <<request, features, scaled, prediction_encoded,
                   prediction_label, calls, response, xvars>>

\* a raw write raising OSError (disk full, I/O error): the file is closed with
\* the rest of the record unwritten, and lines 64-65 answer
RawWriteRaise(r) ==
    /\ pc[r] = "flush"
    /\ file' = [file EXCEPT ![r] = ClosedFile]
    /\ Answer(r, error_response("OSError"))
    /\ UNCHANGED <<request, calls, sink, xvars>>

\* line 62: return jsonify({'prediction': prediction_label})
Return(r) ==
    /\ pc[r] = "return"
    /\ Answer(r, [status |-> 200, key |-> "prediction", value |-> prediction_label[r]])
    /\ UNCHANGED <<request, calls, file, sink, xvars>>

Next ==
    \E r \in Requests :
        \/ Receive(r)
        \/ Extract(r)
        \/ Scale(r)
        \/ ScaleRaise(r)
        \/ Predict(r)
        \/ PredictRaise(r)
        \/ Decode(r)
        \/ DecodeRaise(r)
        \/ Override(r)
        \/ Open(r)
        \/ OpenRaise(r)
        \/ RawWrite(r)
        \/ RawWriteRaise(r)
        \/ Return(r)

Spec == Init /\ [][Next]_vars

\* the extractor alone, called once on every enumerated input
ExtractInit == PInit /\ XInit

ExtractNext == XCall

ExtractSpec == ExtractInit /\ [][ExtractNext]_vars

-----------------------------------------------------------------------------
(* Vocabulary of the properties.                                           *)

\* positions of the sink written by request r
units_of(r) == {i \in 1..Len(sink) : sink[i].req = r}

\* every unit of a record of request r carrying url and label is in the sink
record_appended(r, url, label) ==
    \A u \in 1..MaxParts :
        \E i \in units_of(r) :
            sink[i].unit = u /\ sink[i].row.url = url /\ sink[i].row.label = label

\* the request urls the override rule applies to
override_urls == {u \in RequestUrls : \E tag \in override_tags : contains(lower(chars(u)), tag)}

\* the labels a request can end with that are dangerous when lower-cased
dangerous_finals ==
    {l \in {"benign", "Phishing", "phishing"} : lower(chars(l)) \in dangerous_labels}

url_missing_or_empty(r) == ~request[r].present \/ request[r].url = ""

collaborator_errors == {"scaler.transform raised", "model.predict raised",
                        "label_encoder.inverse_transform raised"}

is_prefix(s, t) == Len(s) <= Len(t) /\ \A i \in 1..Len(s) : s[i] = t[i]

\* the length of everything after the first "?" of url, 0 without a "?"
after_first_question_mark(url) ==
    IF \E i \in 1..Len(url) : url[i] = "?"
    THEN Len(url) - (CHOOSE i \in 1..Len(url) :
                        url[i] = "?" /\ \A j \in 1..(i - 1) : url[j] # "?")
    ELSE 0

ip_login_url == <<"h", "t", "t", "p", ":", "/", "/", "1", "9", "2", ".", "1", "6", "8",
                  ".", "1", ".", "1", "/", "l", "o", "g", "i", "n">>

-----------------------------------------------------------------------------
C2_SinkFailureKeepsPrediction ==
    \A r \in Requests :
        (/\ pc[r] = "done"
         /\ calls[r].decoder = 1
         /\ response[r].value # "label_encoder.inverse_transform raised")
        => /\ response[r].key = "prediction"
           /\ response[r].status = 200

(* C3: a request whose url is missing or empty answers the 400 invalid-    *)
(* input error, has invoked neither the extractor nor the scaler, the      *)
(* classifier or the decoder, and has written nothing to the sink.         *)
C3_MissingUrlRejected ==
    \A r \in Requests :
        (url_missing_or_empty(r) /\ pc[r] # "waiting")
        => /\ pc[r] = "done"
           /\ response[r] = [status |-> 400, key |-> "error", value |-> "No URL provided"]
           /\ response[r].value \notin collaborator_errors
           /\ calls[r] = NoCalls
           /\ units_of(r) = {}

\* one request without a url and one with the empty url have both been answered
C3_Witness ==
    \E r1, r2 \in Requests :
        /\ pc[r1] = "done" /\ ~request[r1].present
        /\ pc[r2] = "done" /\ request[r2].present /\ request[r2].url = ""
        /\ response[r1].status = 400 /\ response[r2].status = 400

(* C4: every unit in the sink carries a label that is dangerous when       *)
(* lower-cased, and a request whose final label is not dangerous has       *)
(* written nothing to the sink.                                            *)
C4_OnlyDangerousLogged ==
    /\ \A i \in 1..Len(sink) : sink[i].row.label \in dangerous_finals
    /\ \A r \in Requests :
        (\/ /\ pc[r] = "return"
            /\ prediction_label[r] \notin dangerous_finals
         \/ /\ pc[r] = "done"
            /\ response[r].key = "prediction"
            /\ response[r].value \notin dangerous_finals)
        => units_of(r) = {}

\* "benign" was answered without a record while a "Phishing" record is in the sink
C4_Witness ==
    /\ \E r \in Requests :
        /\ pc[r] = "done"
        /\ response[r].key = "prediction"
        /\ response[r].value = "benign"
        /\ units_of(r) = {}
    /\ \E i \in 1..Len(sink) : sink[i].row.label = "Phishing"

(* C5: a request answered because the scaler, the classifier or the        *)
(* decoder raised answers a 500 error, invoked no collaborator after the   *)
(* one that raised and none twice, and has written nothing to the sink.    *)
C5_CollaboratorFailure ==
    \A r \in Requests :
        /\ \A c \in {"extract", "scaler", "model", "decoder"} : calls[r][c] <= 1
        /\ (pc[r] = "done" /\ response[r].value \in collaborator_errors)
           => /\ response[r].status = 500
              /\ response[r].key = "error"
              /\ units_of(r) = {}
              /\ response[r].value = "scaler.transform raised"
                     => calls[r] = [extract |-> 1, scaler |-> 1, model |-> 0, decoder |-> 0]
              /\ response[r].value = "model.predict raised"
                     => calls[r] = [extract |-> 1, scaler |-> 1, model |-> 1, decoder |-> 0]
              /\ response[r].value = "label_encoder.inverse_transform raised"
                     => calls[r] = [extract |-> 1, scaler |-> 1, model |-> 1, decoder |-> 1]

\* a request has been answered after the decoder raised
C5_Witness ==
    \E r \in Requests :
        /\ pc[r] = "done"
        /\ response[r].value = "label_encoder.inverse_transform raised"

(* C6 as stated: appends of concurrent requests are serialized: a record   *)
(* whose writer did not fail is never followed, before its last unit, by a *)
(* unit of another record.                                                 *)
C6_AppendsSerialized ==
    \A i \in 1..(Len(sink) - 1) :
        (/\ sink[i].unit < MaxParts
         /\ ~(pc[sink[i].req] = "done" /\ response[sink[i].req].value = "OSError"))
        => /\ sink[i + 1].req = sink[i].req
           /\ sink[i + 1].unit = sink[i].unit + 1

(* C10: the sink only grows at its end: each step leaves what the sink     *)
(* held in place, and the units of one request are the units of one        *)
(* record, each at most once and in order.                                 *)
C10_AppendOnly ==
    [][ \/ sink' = sink
        \/ /\ is_prefix(sink, sink')
           /\ \A i, j \in 1..Len(sink') :
                (i < j /\ sink'[i].req = sink'[j].req)
                => /\ sink'[i].unit < sink'[j].unit
                   /\ sink'[i].row = sink'[j].row ]_vars

\* two requests, one after the other, have each left a whole record
C10_Witness ==
    \E r1, r2 \in Requests :
        /\ r1 # r2
        /\ pc[r1] = "done" /\ pc[r2] = "done"
        /\ record_appended(r1, request[r1].url, response[r1].value)
        /\ record_appended(r2, request[r2].url, response[r2].value)
        /\ Len(sink) = 2 * MaxParts

-----------------------------------------------------------------------------
(* Properties of the extractor, checked under ExtractSpec.                 *)

(* C7 as stated: for "http://192.168.1.1/login" the IP flag (index 3) and  *)
(* the suspicious-word flag (index 13) are both 1.                         *)
C7_IpFlagAfterScheme ==
    (xpc = "done" /\ xurl = ip_login_url)
    => /\ ~xres.raised
       /\ xres.array[4] = 1
       /\ xres.array[14] = 1

(* C8 as stated: the query-length feature (index 12) is the length of      *)
(* everything after the first "?", and 0 without a "?".                    *)
C8_QueryLengthAfterFirstMark ==
    xpc = "done"
    => /\ ~xres.raised
       /\ xres.array[13] = after_first_question_mark(xurl)

(* C9: for every input string the extractor returns 14 numbers and never   *)
(* raises, and the domain-length feature (index 9) is 0 when the string    *)
(* has fewer than 3 "/"-delimited segments.                                *)
C9_ExtractTotal ==
    xpc = "done"
    => /\ ~xres.raised
       /\ Len(xres.array) = 14
       /\ \A k \in 1..Len(xres.array) : xres.array[k] \in Nat
       /\ count(xurl, "/") < 2 => xres.array[10] = 0

\* the extractor has run on a string with a single "/"
C9_Witness ==
    /\ xpc = "done"
    /\ xurl = <<"a", "/", "a">>
    /\ ~xres.raised
    /\ xres.array[10] = 0

====
